---- MODULE Spec2Model ----
(***************************************************************************)
(* A model of the sugar-spend RAG chatbot backend:                         *)
(*   app/data_processor.py  DataProcessor (load, clean, chunk, stats)      *)
(*   app/rag_pipeline.py    RAGPipeline (index build, retrieval, answer)   *)
(*   app/main.py            startup_event and the /api/chat handler        *)
(* The CSV file, the environment, the persistent vector store and the two  *)
(* model providers are the environment of the program; their contents and  *)
(* failures are drawn from bounded sets.                                   *)
(***************************************************************************)
EXTENDS Integers, Sequences, FiniteSets, TLC

VARIABLES
    csv,             \* the data file data/Sugar_Spend_Data.csv
    api_key,         \* whether GEMINI_API_KEY is set in the environment
    store,           \* the persistent chroma collection "sugar_spend_data"
    pc,              \* the server process: "down", "up" or "aborted"
    data_processor,  \* main.py global: None or the loaded DataFrame
    summary_stats,   \* main.py global: None or the statistics
    rag_pipeline,    \* main.py global: None or the constructed pipeline
    chunks,          \* startup_event local: the chunks handed to the index
    fail_at,         \* the call of startup_event that raised, or "none"
    embed_result,    \* what embed_documents did in this process
    request,         \* the last /api/chat request body
    retrieved,       \* retrieve_relevant_chunks' results for that request
    prompt,          \* the prompt generate_answer composed for it
    llm,             \* the generation provider's part in that request
    response,        \* the HTTP response to that request
    previous         \* an exchange a client completed earlier and kept

vars == <<csv, api_key, store, pc, data_processor, summary_stats, rag_pipeline,
          chunks, fail_at, embed_result, request, retrieved, prompt, llm,
          response, previous>>

(***************************************************************************)
(* Bounds of the model.                                                    *)
(***************************************************************************)
MaxRows == 2

(***************************************************************************)
(* Values of a table cell.  A number cell holds the float64 nearest to the *)
(* quotient n/d of two integers (an integer when d = 1); "nan" is pandas'  *)
(* missing value; "inf" carries its sign in n.                             *)
(***************************************************************************)
Num(n) == [kind |-> "num", n |-> n, d |-> 1, s |-> ""]
Rat(n, d) == [kind |-> "num", n |-> n, d |-> d, s |-> ""]
NaN == [kind |-> "nan", n |-> 0, d |-> 1, s |-> ""]
Inf(sign) == [kind |-> "inf", n |-> sign, d |-> 1, s |-> ""]
Str(s) == [kind |-> "str", n |-> 0, d |-> 1, s |-> s]
None == [kind |-> "None", n |-> 0, d |-> 1, s |-> ""]

Abs(n) == IF n < 0 THEN -n ELSE n
Min(a, b) == IF a < b THEN a ELSE b

RECURSIVE Join(_, _)
Join(sep, ss) ==
    IF Len(ss) = 0 THEN ""
    ELSE IF Len(ss) = 1 THEN ss[1]
    ELSE ss[1] \o sep \o Join(sep, Tail(ss))


(***************************************************************************)
(* Python string formatting of numbers, as the f-strings of                *)
(* create_text_chunks use it.                                              *)
(***************************************************************************)
Pad2(k) == IF k < 10 THEN "0" \o ToString(k) ELSE ToString(k)
Pad3(k) == IF k < 10 THEN "00" \o ToString(k)
           ELSE IF k < 100 THEN "0" \o ToString(k) ELSE ToString(k)

\* the ',' option of the format mini-language, for n >= 0
RECURSIVE Commas(_)
Commas(n) == IF n < 1000 THEN ToString(n)
             ELSE Commas(n \div 1000) \o "," \o Pad3(n % 1000)

\* p / q (p, q > 0) scaled by a power of two into the interval [1, 2)
RECURSIVE Normalized(_, _)
Normalized(p, q) ==
    IF p < q THEN Normalized(2 * p, q)
    ELSE IF p >= 2 * q THEN Normalized(p, 2 * q)
    ELSE <<p, q>>

\* the remainder of the binary long division r / q (r < q) after that many
\* more bits, four bits at a step
RECURSIVE Residue(_, _, _)
Residue(r, q, bits) ==
    IF bits = 0 THEN r ELSE Residue((16 * r) % q, q, bits - 4)

\* a cell n/d holds the float64 nearest to n/d (a significand of 53 bits):
\* 1 when that float is above p / q, -1 when it is below, 0 when it is p / q
Float64Error(p, q) ==
    LET cut(pq) ==
            LET rest(r) == IF r = 0 THEN 0 ELSE IF 2 * r > pq[2] THEN 1 ELSE -1
            IN rest(Residue(pq[1] - pq[2], pq[2], 52))
    IN IF p = 0 THEN 0 ELSE cut(Normalized(p, q))

\* the hundredths that format(x, ".2f") prints for the float64 x nearest to
\* n / d (n >= 0, d > 0): the float itself is rounded, ties to even, so a
\* quotient halfway between two hundredths goes the way its float lies
Cents(n, d) ==
    LET q == (100 * n) \div d
        r == (100 * n) % d
    IN IF 2 * r > d THEN q + 1
       ELSE IF 2 * r < d THEN q
       ELSE IF Float64Error(n, d) > 0 THEN q + 1
       ELSE IF Float64Error(n, d) < 0 THEN q
       ELSE IF q % 2 = 0 THEN q ELSE q + 1

\* IEEE sign of the float n/d, negative zero included (0 / -5 is -0.0)
IsNegative(v) == (v.n < 0 /\ v.d > 0) \/ (v.n >= 0 /\ v.d < 0 /\ v.kind = "num")

\* format(v, ".2f") and, with comma, format(v, ",.2f")
FormatF2(v, comma) ==
    IF v.kind = "nan" THEN "nan"
    ELSE IF v.kind = "inf" THEN (IF v.n < 0 THEN "-inf" ELSE "inf")
    ELSE LET cents == Cents(Abs(v.n), Abs(v.d))
             whole == cents \div 100
         IN (IF IsNegative(v) THEN "-" ELSE "")
            \o (IF comma THEN Commas(whole) ELSE ToString(whole))
            \o "." \o Pad2(cents % 100)

\* str(v) of a cell of a column (or row Series) of the given dtype
PyStr(v, dtype) ==
    IF v.kind = "str" THEN v.s
    ELSE IF v.kind = "nan" THEN "nan"
    ELSE IF v.kind = "inf" THEN (IF v.n < 0 THEN "-inf" ELSE "inf")
    ELSE IF dtype = "float64" THEN ToString(v.n) \o ".0"
    ELSE ToString(v.n)

(***************************************************************************)
(* The part of pandas the DataProcessor uses.  A DataFrame is              *)
(*   columns: the header names, each a sequence of characters grouped in   *)
(*            tokens (a byte-order mark, a blank, or the rest of a name);  *)
(*   dtypes:  one of "int64", "float64", "object" per column;              *)
(*   rows:    [idx, cells], idx being the row's index label.               *)
(***************************************************************************)
BOM == "<U+FEFF>"
SP == " "

RECURSIVE lstrip(_)
lstrip(t) == IF Len(t) > 0 /\ t[1] = SP THEN lstrip(Tail(t)) ELSE t
RECURSIVE rstrip(_)
rstrip(t) == IF Len(t) > 0 /\ t[Len(t)] = SP
             THEN rstrip(SubSeq(t, 1, Len(t) - 1)) ELSE t
\* Index.str.strip().str.replace('\ufeff', '')
normalize_name(t) == SelectSeq(rstrip(lstrip(t)), LAMBDA c : c # BOM)

ColName(t) == Join("", t)
HasCol(df, name) == \E j \in 1..Len(df.columns) : ColName(df.columns[j]) = name
ColPos(df, name) ==
    CHOOSE j \in 1..Len(df.columns) : ColName(df.columns[j]) = name
Cell(df, r, name) == r.cells[ColPos(df, name)]
ColCells(df, j) == [i \in 1..Len(df.rows) |-> df.rows[i].cells[j]]
AnyKind(cells, kind) == \E i \in 1..Len(cells) : cells[i].kind = kind

\* dtype inference of pd.read_csv for one column
infer_dtype(cells) ==
    IF Len(cells) = 0 \/ AnyKind(cells, "str") THEN "object"
    ELSE IF AnyKind(cells, "nan") THEN "float64"
    ELSE "int64"

\* the parser skips a byte-order mark that opens the file
skip_bom(header) ==
    IF Len(header) > 0 /\ Len(header[1]) > 0 /\ header[1][1] = BOM
    THEN [header EXCEPT ![1] = Tail(@)] ELSE header

read_csv(file) ==
    LET raw == [columns |-> skip_bom(file.header),
                dtypes |-> <<>>,
                rows |-> [i \in 1..Len(file.rows) |->
                              [idx |-> i - 1, cells |-> file.rows[i]]]]
    IN [raw EXCEPT !.dtypes =
            [j \in 1..Len(file.header) |-> infer_dtype(ColCells(raw, j))]]

\* dropna().reset_index(drop=True): the surviving rows are renumbered
dropna_reset_index(df) ==
    LET kept == SelectSeq(df.rows,
                          LAMBDA r : \A j \in 1..Len(r.cells) : r.cells[j].kind # "nan")
    IN [df EXCEPT !.rows = [i \in 1..Len(kept) |-> [kept[i] EXCEPT !.idx = i - 1]]]

\* DataFrame.dropna(): a row goes when any of its cells is missing
dropna(df) ==
    [df EXCEPT !.rows =
        SelectSeq(df.rows,
                  LAMBDA r : \A j \in 1..Len(r.cells) : r.cells[j].kind # "nan")]

\* pd.to_numeric(column, errors='coerce') on the column at position j
to_numeric_cell(v) == IF v.kind = "num" THEN v ELSE NaN
to_numeric(df, j) ==
    LET rows == [i \in 1..Len(df.rows) |->
                    [df.rows[i] EXCEPT !.cells[j] = to_numeric_cell(@)]]
        cells == [i \in 1..Len(rows) |-> rows[i].cells[j]]
    IN [df EXCEPT !.rows = rows,
                  !.dtypes[j] = IF AnyKind(cells, "nan") \/ @ = "float64"
                                THEN "float64" ELSE "int64"]

\* a / b of two float64 values
truediv(a, b) ==
    IF a.kind \notin {"num", "inf"} \/ b.kind \notin {"num", "inf"} THEN NaN
    ELSE IF a.kind = "inf"
         THEN (IF b.kind = "inf" THEN NaN
               ELSE Inf(IF IsNegative(a) = IsNegative(b) THEN 1 ELSE -1))
    ELSE IF b.kind = "inf"
         THEN Rat(0, IF IsNegative(a) = IsNegative(b) THEN 1 ELSE -1)
    ELSE IF b.n = 0
         THEN (IF a.n = 0 THEN NaN
               ELSE Inf(IF IsNegative(a) = IsNegative(b) THEN 1 ELSE -1))
    ELSE Rat(a.n * b.d, a.d * b.n)

with_price(df) ==
    [columns |-> Append(df.columns, <<"Price_per_KG">>),
     dtypes |-> Append(df.dtypes, "float64"),
     rows |-> [i \in 1..Len(df.rows) |->
                 [df.rows[i] EXCEPT !.cells =
                     Append(@, truediv(Cell(df, df.rows[i], "Spend (USD)"),
                                       Cell(df, df.rows[i], "Quantity (KG)")))]]]

\* df.columns = df.columns.str.strip().str.replace('\ufeff', '')
strip_columns(df) ==
    [df EXCEPT !.columns =
        [j \in 1..Len(df.columns) |-> normalize_name(df.columns[j])]]

\* if name in df.columns: df[name] = pd.to_numeric(df[name], errors='coerce')
coerce_column(df, name) ==
    IF HasCol(df, name) THEN to_numeric(df, ColPos(df, name)) ELSE df

\* if both columns are present: df['Price_per_KG'] = spend / quantity
add_price(df) ==
    IF HasCol(df, "Spend (USD)") /\ HasCol(df, "Quantity (KG)")
    THEN with_price(df) ELSE df

\* the statements of clean_data, innermost first
clean_data(df) ==
    add_price(coerce_column(coerce_column(strip_columns(dropna(df)),
                                          "Quantity (KG)"),
                            "Spend (USD)"))


(***************************************************************************)
(* DataProcessor.create_text_chunks and get_summary_stats.                 *)
(***************************************************************************)
\* iterrows() builds each row as a Series: all-numeric frames upcast to float
row_dtype(df, name) ==
    IF \A j \in 1..Len(df.dtypes) : df.dtypes[j] \in {"int64", "float64"}
    THEN "float64" ELSE df.dtypes[ColPos(df, name)]

\* the columns a row is subscripted with, in the order of first use
ChunkColumns ==
    <<"Commodity", "Top Supplier", "Quantity (KG)", "Spend (USD)", "Price_per_KG">>

\* row[name] raises KeyError for the first of these that is absent
MissingOf(df, names) ==
    SelectSeq(names, LAMBDA name : ~HasCol(df, name))

\* main_text, supplier_text and cost_text joined by blanks, given the
\* interpolated fields of the row
combined_text(commodity, supplier, quantity, spend, price) ==
    "Commodity: " \o commodity \o ". "
    \o "Top Supplier: " \o supplier \o ". "
    \o "Quantity Purchased: " \o quantity \o " kilograms. "
    \o "Total Spend: $" \o spend \o " USD. "
    \o "Price per kilogram: $" \o price \o "."
    \o " "
    \o supplier \o " supplies " \o commodity \o ", "
    \o "with " \o quantity \o " kg purchased for $" \o spend \o "."
    \o " "
    \o "The spend on " \o commodity \o " is $" \o spend \o ", "
    \o "sourced from " \o supplier \o " at $" \o price \o " per kg."

make_chunk(df, r) ==
    [id |-> "row_" \o ToString(r.idx),
        text |-> combined_text(
            PyStr(Cell(df, r, "Commodity"), row_dtype(df, "Commodity")),
            PyStr(Cell(df, r, "Top Supplier"), row_dtype(df, "Top Supplier")),
            PyStr(Cell(df, r, "Quantity (KG)"), row_dtype(df, "Quantity (KG)")),
            FormatF2(Cell(df, r, "Spend (USD)"), TRUE),
            FormatF2(Cell(df, r, "Price_per_KG"), FALSE)),
        metadata |-> [commodity |-> Cell(df, r, "Commodity"),
                      supplier |-> Cell(df, r, "Top Supplier"),
                      quantity_kg |-> Cell(df, r, "Quantity (KG)"),
                      spend_usd |-> Cell(df, r, "Spend (USD)"),
                      price_per_kg |-> Cell(df, r, "Price_per_KG"),
                      row_index |-> r.idx]]

\* a builder that skips the rows it cannot subscript instead of raising
create_text_chunks_lenient(df) ==
    LET iterrows(df_clean) ==
            [ok |-> TRUE, error |-> "",
             chunks |-> IF Len(MissingOf(df_clean, ChunkColumns)) > 0 THEN <<>>
                        ELSE [i \in 1..Len(df_clean.rows) |->
                                 make_chunk(df_clean, df_clean.rows[i])]]
    IN iterrows(clean_data(df))

\* the result of a call: ok with its value, or the exception raised
create_text_chunks(df) ==
    LET iterrows(df_clean, missing) ==
            IF Len(df_clean.rows) > 0 /\ Len(missing) > 0
            THEN [ok |-> FALSE, error |-> "KeyError: " \o missing[1],
                  chunks |-> <<>>]
            ELSE [ok |-> TRUE, error |-> "",
                  chunks |-> [i \in 1..Len(df_clean.rows) |->
                                 make_chunk(df_clean, df_clean.rows[i])]]
    IN iterrows(clean_data(df), MissingOf(clean_data(df), ChunkColumns))

\* Series.sum() of an integer or float column (missing values skipped)
RECURSIVE SumInts(_)
SumInts(cells) ==
    IF Len(cells) = 0 THEN 0
    ELSE (IF cells[1].kind = "num" THEN cells[1].n ELSE 0) + SumInts(Tail(cells))

(***************************************************************************)
(* float64 arithmetic, as the sum and the division of Series.mean() do it. *)
(* A finite float64 is a sign, a significand of 53 bits kept in two parts, *)
(* hi * 2^28 + lo with 2^24 <= hi < 2^25 (both 0 for a zero), and an       *)
(* exponent: its value is (-1)^neg * (hi * 2^28 + lo) * 2^exp.  Every      *)
(* operation rounds to the nearest float64, ties to even.  While an        *)
(* operation runs, the significand carries three more bits (guard, round   *)
(* and sticky) in a pair <<h, l>> that stands for h * 2^28 + l.            *)
(***************************************************************************)
Float64(neg, hi, lo, exp) ==
    [kind |-> "float64", neg |-> neg, hi |-> hi, lo |-> lo, exp |-> exp]
Zero(neg) == Float64(neg, 0, 0, 0)
IsZero(x) == x.hi = 0 /\ x.lo = 0

\* the last bit kept is set when a bit was lost below it
Jam(l, lost) == IF lost /\ l % 2 = 0 THEN l + 1 ELSE l

\* <<h, l>> shifted right by d bits
ShiftRight(h, l, d) ==
    IF d = 0 THEN <<h, l>>
    ELSE IF d >= 57 THEN <<0, IF h # 0 \/ l # 0 THEN 1 ELSE 0>>
    ELSE IF d >= 28
         THEN <<0, Jam(h \div 2^(d - 28), h % 2^(d - 28) # 0 \/ l # 0)>>
    ELSE <<h \div 2^d, Jam((h % 2^d) * 2^(28 - d) + l \div 2^d, l % 2^d # 0)>>

\* <<h, l>> (not zero) shifted left until h has 28 bits, the exponent e
\* lowered by as much
RECURSIVE NormalizeLeft(_, _, _)
NormalizeLeft(h, l, e) ==
    IF h >= 2^27 THEN <<h, l, e>>
    ELSE IF h = 0 THEN NormalizeLeft(l, 0, e - 28)
    ELSE IF h < 2^19
         THEN NormalizeLeft(h * 2^8 + l \div 2^20, (l % 2^20) * 2^8, e - 8)
    ELSE NormalizeLeft(2 * h + l \div 2^27, (l % 2^27) * 2, e - 1)

\* the float64 one unit in the last place above hi * 2^28 + lo
RoundUp(neg, hi, lo, e) ==
    IF lo + 1 < 2^28 THEN Float64(neg, hi, lo + 1, e)
    ELSE IF hi + 1 < 2^25 THEN Float64(neg, hi + 1, 0, e)
    ELSE Float64(neg, 2^24, 0, e + 1)

\* the float64 nearest to (h * 2^28 + l) * 2^(e - 3), h of 28 bits
Round(neg, h, l, e) ==
    LET nearest(hi, lo, grs) ==
            IF grs > 4 \/ (grs = 4 /\ lo % 2 = 1)
            THEN RoundUp(neg, hi, lo, e) ELSE Float64(neg, hi, lo, e)
    IN nearest(h \div 8, (h % 8) * 2^25 + l \div 8, l % 8)

\* the significand of x with three zero bits appended
Extended(x) == <<x.hi * 8 + x.lo \div 2^25, (x.lo % 2^25) * 8>>

\* |x| < |y| of two floats that are not zero
MagLess(x, y) ==
    \/ x.exp < y.exp
    \/ x.exp = y.exp /\ (x.hi < y.hi \/ (x.hi = y.hi /\ x.lo < y.lo))

\* |x| + |y| with the given sign, x.exp >= y.exp
AddMagnitudes(neg, x, y) ==
    LET carry(sh, sl) ==
            IF sh >= 2^28
            THEN Round(neg, sh \div 2,
                       Jam((sh % 2) * 2^27 + sl \div 2, sl % 2 = 1), x.exp + 1)
            ELSE Round(neg, sh, sl, x.exp)
        sum(a, b) == carry(a[1] + b[1] + (a[2] + b[2]) \div 2^28,
                           (a[2] + b[2]) % 2^28)
    IN sum(Extended(x),
           ShiftRight(Extended(y)[1], Extended(y)[2], x.exp - y.exp))

\* |x| - |y| with the given sign, |x| > |y|
SubMagnitudes(neg, x, y) ==
    LET normal(t) == Round(neg, t[1], t[2], t[3])
        diff(a, b) ==
            IF a[2] >= b[2]
            THEN normal(NormalizeLeft(a[1] - b[1], a[2] - b[2], x.exp))
            ELSE normal(NormalizeLeft(a[1] - b[1] - 1, a[2] - b[2] + 2^28, x.exp))
    IN diff(Extended(x),
            ShiftRight(Extended(y)[1], Extended(y)[2], x.exp - y.exp))

\* x + y of two finite floats
AddFloat64(x, y) ==
    IF IsZero(x) /\ IsZero(y) THEN Zero(x.neg /\ y.neg)
    ELSE IF IsZero(x) THEN y
    ELSE IF IsZero(y) THEN x
    ELSE IF x.neg = y.neg
         THEN (IF x.exp >= y.exp THEN AddMagnitudes(x.neg, x, y)
               ELSE AddMagnitudes(x.neg, y, x))
    ELSE IF x.hi = y.hi /\ x.lo = y.lo /\ x.exp = y.exp THEN Zero(FALSE)
    ELSE IF MagLess(x, y) THEN SubMagnitudes(y.neg, y, x)
    ELSE SubMagnitudes(x.neg, x, y)

\* the float64 of the integer p, 0 <= p < 2^31
FromInt(neg, p) ==
    LET normal(t) == Round(neg, t[1], t[2], t[3])
    IN IF p = 0 THEN Zero(neg)
       ELSE normal(NormalizeLeft(p \div 2^28, p % 2^28, 3))

\* the four digits of v < 2^28 in base 128
Digits(v) == [i \in 1..4 |-> (v \div 128^(4 - i)) % 128]

\* the long division of the number with these digits by c, in base 128:
\* the digits of the quotient so far and the remainder
RECURSIVE LongDivision(_, _, _, _)
LongDivision(digits, c, q, r) ==
    IF Len(digits) = 0 THEN [q |-> q, r |-> r]
    ELSE LongDivision(Tail(digits), c,
                      Append(q, (128 * r + Head(digits)) \div c),
                      (128 * r + Head(digits)) % c)

\* bit i (1 the highest) of the number with the digits q in base 128
Bit(q, i) == (q[((i - 1) \div 7) + 1] \div 2^(6 - ((i - 1) % 7))) % 2

\* the seven bits from bit s on, as a number
Bits7(q, s) ==
    Bit(q, s) * 64 + Bit(q, s + 1) * 32 + Bit(q, s + 2) * 16 + Bit(q, s + 3) * 8
    + Bit(q, s + 4) * 4 + Bit(q, s + 5) * 2 + Bit(q, s + 6)

\* x / c of a finite float x and an integer 0 < c < 2^24, negated when negc:
\* the significand followed by 35 zero bits is divided by c, the first 53
\* bits of the quotient are kept and rounded by the bits after them
DivideFloat64(x, c, negc) ==
    LET rounded(neg, hi, lo, e, guard, sticky) ==
            IF guard = 1 /\ (sticky \/ lo % 2 = 1)
            THEN RoundUp(neg, hi, lo, e) ELSE Float64(neg, hi, lo, e)
        cut(q, r, first) ==
            rounded(x.neg # negc,
                    Bit(q, first) * 2^24 + Bits7(q, first + 1) * 2^17
                    + Bits7(q, first + 8) * 2^10 + Bits7(q, first + 15) * 8
                    + Bit(q, first + 22) * 4 + Bit(q, first + 23) * 2
                    + Bit(q, first + 24),
                    Bits7(q, first + 25) * 2^21 + Bits7(q, first + 32) * 2^14
                    + Bits7(q, first + 39) * 2^7 + Bits7(q, first + 46),
                    x.exp + 4 - first,
                    Bit(q, first + 53),
                    r # 0 \/ \E i \in (first + 54)..91 : Bit(q, i) = 1)
        quotient(d) ==
            cut(d.q, d.r, CHOOSE i \in 1..91 :
                              Bit(d.q, i) = 1 /\ \A j \in 1..(i - 1) : Bit(d.q, j) = 0)
    IN IF IsZero(x) THEN Zero(x.neg # negc)
       ELSE quotient(LongDivision(Digits(x.hi) \o Digits(x.lo) \o <<0, 0, 0, 0, 0>>,
                                  c, <<>>, 0))

\* the float64 a cell holds: n / d is the quotient of two integers, rounded
ToFloat64(v) ==
    IF v.kind = "num"
    THEN DivideFloat64(FromInt(FALSE, Abs(v.n)), Abs(v.d), IsNegative(v))
    ELSE v

\* a + b of two float64 values
AddVal(a, b) ==
    IF a.kind = "nan" \/ b.kind = "nan" THEN NaN
    ELSE IF a.kind = "inf" /\ b.kind = "inf"
         THEN (IF a.n = b.n THEN a ELSE NaN)
    ELSE IF a.kind = "inf" THEN a
    ELSE IF b.kind = "inf" THEN b
    ELSE AddFloat64(ToFloat64(a), ToFloat64(b))

\* numpy's loop over a block of fewer than 8 values: res = -0.0 at first,
\* then res += a[i] in order
RECURSIVE AddInOrder(_, _)
AddInOrder(res, a) ==
    IF Len(a) = 0 THEN res ELSE AddInOrder(AddVal(res, a[1]), Tail(a))

\* accumulator j of numpy's unrolled loop over the first blocks values of
\* r[j] = a[j], then r[j] += a[i + j] for i = 8, 16, ...
RECURSIVE Accumulator(_, _, _)
Accumulator(a, j, blocks) ==
    IF blocks = 1 THEN ToFloat64(a[j])
    ELSE AddVal(Accumulator(a, j, blocks - 1), a[8 * (blocks - 1) + j])

\* numpy's pairwise summation of a block of values (pairwise_sum in
\* loops_utils.h): fewer than 8 are added in order; up to 128 go to eight
\* accumulators that are added pairwise, the rest after them in order; a
\* longer block is split in two
RECURSIVE PairwiseSum(_)
PairwiseSum(a) ==
    LET n == Len(a)
        r(j) == Accumulator(a, j, n \div 8)
        half == (n \div 2) - ((n \div 2) % 8)
    IN IF n < 8 THEN AddInOrder(Zero(TRUE), a)
       ELSE IF n <= 128
       THEN AddInOrder(AddVal(AddVal(AddVal(r(1), r(2)), AddVal(r(3), r(4))),
                              AddVal(AddVal(r(5), r(6)), AddVal(r(7), r(8)))),
                       SubSeq(a, n - (n % 8) + 1, n))
       ELSE AddVal(PairwiseSum(SubSeq(a, 1, half)),
                   PairwiseSum(SubSeq(a, half + 1, n)))

\* the sum nanmean takes: missing values count as 0, and the reduction
\* adds the pairwise sum to its initial value 0.0 (so a column of -0.0 sums
\* to 0.0)
SumVals(cells) ==
    AddVal(Zero(FALSE),
           PairwiseSum([i \in 1..Len(cells) |->
                           IF cells[i].kind = "nan" THEN Zero(FALSE) ELSE cells[i]]))

\* Series.mean(): the sum over the number of values present, nan when none
Mean(cells) ==
    LET over(total, present) ==
            IF present = 0 THEN NaN
            ELSE IF total.kind = "float64"
                 THEN DivideFloat64(total, present, FALSE)
            ELSE total
    IN over(SumVals(cells), Len(SelectSeq(cells, LAMBDA v : v.kind # "nan")))

StatsColumns == <<"Spend (USD)", "Quantity (KG)", "Price_per_KG", "Commodity", "Top Supplier">>

\* df[name] as the sequence of its cells
Column(df, name) == ColCells(df, ColPos(df, name))

get_summary_stats(df) ==
    LET stats_of(df_clean, missing) ==
            IF Len(missing) > 0
            THEN [ok |-> FALSE, error |-> "KeyError: " \o missing[1],
                  stats |-> None]
            ELSE [ok |-> TRUE, error |-> "",
                  stats |-> [total_commodities |-> Len(df_clean.rows),
                             total_spend |-> SumInts(Column(df_clean, "Spend (USD)")),
                             total_quantity |-> SumInts(Column(df_clean, "Quantity (KG)")),
                             avg_price_per_kg |-> Mean(Column(df_clean, "Price_per_KG")),
                             commodities |-> Column(df_clean, "Commodity"),
                             suppliers |-> Column(df_clean, "Top Supplier")]]
    IN stats_of(clean_data(df), MissingOf(clean_data(df), StatsColumns))

(***************************************************************************)
(* Lines 81-83 of startup_event: the DataProcessor is constructed (its     *)
(* constructor loads the file), the chunks are built, the statistics are   *)
(* computed.  The first call that raises ends the stage.                   *)
(***************************************************************************)
data_stage(file) ==
    LET stage(df, built, stats) ==
            IF ~built.ok
            THEN [data_processor |-> df, chunks |-> <<>>, summary_stats |-> None,
                  fail_at |-> "create_text_chunks", error |-> built.error]
            ELSE IF ~stats.ok
            THEN [data_processor |-> df, chunks |-> built.chunks,
                  summary_stats |-> None,
                  fail_at |-> "get_summary_stats", error |-> stats.error]
            ELSE [data_processor |-> df, chunks |-> built.chunks,
                  summary_stats |-> stats.stats,
                  fail_at |-> "none", error |-> ""]
    IN IF ~file.exists
       THEN [data_processor |-> None, chunks |-> <<>>, summary_stats |-> None,
             fail_at |-> "load_data", error |-> "FileNotFoundError"]
       ELSE stage(read_csv(file), create_text_chunks(read_csv(file)),
                  get_summary_stats(read_csv(file)))


(***************************************************************************)
(* The embedding provider and the vector store.  An embedding is a unit    *)
(* vector; the model keeps its direction, one of NumDirs equally spaced    *)
(* directions of the plane, so the cosine distance of two embeddings grows *)
(* with the angle between them.  encode is deterministic in its text.      *)
(***************************************************************************)
NumDirs == 7

encode(text) == Len(text) % NumDirs

\* the angle between two directions, in steps of 360/NumDirs degrees
Distance(a, b) == Min(Abs(a - b), NumDirs - Abs(a - b))

count(collection) == Len(collection)

\* Collection.add.  An empty list of ids is refused before anything is
\* written (the library validates its arguments first and raises
\* ValueError); entries whose id the collection already holds are skipped.
\* The library is not part of the program and the program asks nothing of a
\* call that raises while it writes (fault = "add"): any number kept of the
\* new entries, from none to all of them, may be in the collection then.
\* ok: the call returned.
collection_add(collection, embeddings, documents, ids, metadatas, fault, kept) ==
    LET new == [i \in 1..Len(ids) |->
                   [id |-> ids[i], embedding |-> embeddings[i],
                    document |-> documents[i], metadata |-> metadatas[i]]]
        held(id) == \E k \in 1..Len(collection) : collection[k].id = id
    IN IF Len(ids) = 0 THEN [ok |-> FALSE, collection |-> collection]
       ELSE IF fault = "add"
       THEN [ok |-> FALSE,
             collection |-> collection
                 \o SelectSeq(SubSeq(new, 1, Min(kept, Len(new))),
                              LAMBDA e : ~held(e.id))]
       ELSE [ok |-> TRUE,
             collection |-> collection \o SelectSeq(new, LAMBDA e : ~held(e.id))]

\* Collection.query: the n_results nearest entries, nearest first; entries
\* at the same distance keep the order in which they were added
\* the distance of every entry of the collection to the query
Distances(collection, query_embedding) ==
    [i \in 1..Len(collection) |->
        Distance(collection[i].embedding, query_embedding)]

\* the place of every entry when the entries are sorted by distance, entries
\* at the same distance keeping the order in which they were added
Ranks(dist) ==
    [i \in 1..Len(dist) |->
        Cardinality({j \in 1..Len(dist) :
                        dist[j] < dist[i] \/ (dist[j] = dist[i] /\ j < i)}) + 1]

\* the entries at the first n places
Nearest(rank, n) == [r \in 1..n |-> CHOOSE i \in 1..Len(rank) : rank[i] = r]

\* Collection.query: the n_results nearest entries, nearest first
collection_query(collection, query_embedding, n_results) ==
    LET results(dist, hits) ==
            [documents |-> [r \in 1..Len(hits) |-> collection[hits[r]].document],
             metadatas |-> [r \in 1..Len(hits) |-> collection[hits[r]].metadata],
             distances |-> [r \in 1..Len(hits) |-> dist[hits[r]]]]
    IN results(Distances(collection, query_embedding),
               Nearest(Ranks(Distances(collection, query_embedding)),
                       Min(n_results, Len(collection))))

(***************************************************************************)
(* RAGPipeline.                                                            *)
(***************************************************************************)
top_k == 30

\* embed_documents without its count() guard
embed_documents_unguarded(collection, chunk_list, fault, kept) ==
    LET texts == [i \in 1..Len(chunk_list) |-> chunk_list[i].text]
        ids == [i \in 1..Len(chunk_list) |-> chunk_list[i].id]
        metadatas == [i \in 1..Len(chunk_list) |-> chunk_list[i].metadata]
        embeddings == [i \in 1..Len(texts) |-> encode(texts[i])]
        added(out) == [collection |-> out.collection,
                       result |-> IF out.ok THEN "stored" ELSE "add_failed"]
    IN IF fault = "encode"
       THEN [collection |-> collection, result |-> "encode_failed"]
       ELSE added(collection_add(collection, embeddings, texts, ids, metadatas,
                                 fault, kept))

\* embed_documents rebuilding a populated collection from the chunk list
embed_documents_replace(collection, chunk_list, fault, kept) ==
    embed_documents_unguarded(<<>>, chunk_list, fault, kept)

\* fault: the provider call that raises during this call, or "none"; kept:
\* the entries a raising Collection.add has stored.  Every embedding is
\* computed before the one call of Collection.add, and nothing is undone
\* when that call raises.
embed_documents(collection, chunk_list, fault, kept) ==
    IF count(collection) > 0
    THEN [collection |-> collection, result |-> "skipped"]
    ELSE LET texts == [i \in 1..Len(chunk_list) |-> chunk_list[i].text]
             ids == [i \in 1..Len(chunk_list) |-> chunk_list[i].id]
             metadatas == [i \in 1..Len(chunk_list) |-> chunk_list[i].metadata]
             embeddings == [i \in 1..Len(texts) |-> encode(texts[i])]
             added(out) == [collection |-> out.collection,
                            result |-> IF out.ok THEN "stored" ELSE "add_failed"]
         IN IF fault = "encode"
            THEN [collection |-> collection, result |-> "encode_failed"]
            ELSE added(collection_add(collection, embeddings, texts, ids,
                                      metadatas, fault, kept))

\* a retrieval that reads the first top_k entries in the order of insertion
retrieve_unranked(collection, query_text, fault) ==
    IF fault \in {"encode", "query"}
    THEN [called |-> TRUE, ok |-> FALSE, error |-> fault \o " failed",
          contexts |-> <<>>, metadatas |-> <<>>, distances |-> <<>>]
    ELSE LET n == Min(top_k, Len(collection))
         IN [called |-> TRUE, ok |-> TRUE, error |-> "",
             contexts |-> [i \in 1..n |-> collection[i].document],
             metadatas |-> [i \in 1..n |-> collection[i].metadata],
             distances |-> [i \in 1..n |->
                              Distance(collection[i].embedding, encode(query_text))]]

\* a retrieval that catches the provider's exception, logs it and returns
\* no results
retrieve_swallowing_errors(collection, query_text, fault) ==
    IF fault \in {"encode", "query"}
    THEN [called |-> TRUE, ok |-> TRUE, error |-> fault \o " failed",
          contexts |-> <<>>, metadatas |-> <<>>, distances |-> <<>>]
    ELSE LET found(results) ==
                 [called |-> TRUE, ok |-> TRUE, error |-> "",
                  contexts |-> results.documents,
                  metadatas |-> results.metadatas,
                  distances |-> results.distances]
         IN found(collection_query(collection, encode(query_text), top_k))

\* fault: the provider call that raises during this call, or "none"; the
\* error is the text of the exception raised
retrieve_relevant_chunks(collection, query_text, fault) ==
    IF fault \in {"encode", "query"}
    THEN [called |-> TRUE, ok |-> FALSE, error |-> fault \o " failed",
          contexts |-> <<>>, metadatas |-> <<>>, distances |-> <<>>]
    ELSE LET found(results) ==
                 [called |-> TRUE, ok |-> TRUE, error |-> "",
                  contexts |-> results.documents,
                  metadatas |-> results.metadatas,
                  distances |-> results.distances]
         IN found(collection_query(collection, encode(query_text), top_k))


\* conversation_history[:3]
first_three(turns) == SubSeq(turns, 1, Min(3, Len(turns)))

\* conversation_history[-3:]
last_three(turns) ==
    SubSeq(turns, IF Len(turns) > 3 THEN Len(turns) - 2 ELSE 1, Len(turns))

\* msg['role'] and msg['content'] raise KeyError on a turn without the key
missing_key(msg) ==
    IF "role" \notin DOMAIN msg THEN "role"
    ELSE IF "content" \notin DOMAIN msg THEN "content"
    ELSE ""

context_section(contexts) ==
    Join("\n\n", [i \in 1..Len(contexts) |->
                     "Context " \o ToString(i) \o ":\n" \o contexts[i]])

\* the history block; only called when no rendered turn lacks a key
history_section(conversation_history) ==
    IF ~conversation_history.none /\ Len(conversation_history.turns) > 0
    THEN LET recent == last_three(conversation_history.turns)
         IN "Previous conversation:\n"
            \o Join("", [i \in 1..Len(recent) |->
                            recent[i].role \o ": " \o recent[i].content \o "\n"])
            \o "\n"
    ELSE ""

\* a template with the history block after the context block
prompt_text_history_last(history, context, query_text) ==
    "You are an AI assistant analyzing sugar commodity spend data. Answer the user's question accurately using ONLY the provided context.\n"
    \o "\n"
    \o "CONTEXT INFORMATION:\n"
    \o context \o "\n"
    \o "\n" \o history \o "\n"
    \o "\n"
    \o "USER QUESTION: " \o query_text \o "\n"
    \o "\n"
    \o "INSTRUCTIONS:\n"
    \o "1. Answer based ONLY on the provided context\n"
    \o "2. Be specific with numbers (quantities in kg, spend in USD, suppliers, commodities)\n"
    \o "3. Format numbers clearly (e.g., $1,234.56, 1,000 kg)\n"
    \o "4. If the context doesn't have the information, say so\n"
    \o "5. Be concise but complete\n"
    \o "\n"
    \o "ANSWER:"

prompt_text(history, context, query_text) ==
    "You are an AI assistant analyzing sugar commodity spend data. Answer the user's question accurately using ONLY the provided context.\n"
    \o "\n" \o history \o "\n"
    \o "\n"
    \o "CONTEXT INFORMATION:\n"
    \o context \o "\n"
    \o "\n"
    \o "USER QUESTION: " \o query_text \o "\n"
    \o "\n"
    \o "INSTRUCTIONS:\n"
    \o "1. Answer based ONLY on the provided context\n"
    \o "2. Be specific with numbers (quantities in kg, spend in USD, suppliers, commodities)\n"
    \o "3. Format numbers clearly (e.g., $1,234.56, 1,000 kg)\n"
    \o "4. If the context doesn't have the information, say so\n"
    \o "5. Be concise but complete\n"
    \o "\n"
    \o "ANSWER:"

NoPrompt == [history_section |-> "", context_section |-> "", text |-> ""]
NoAnswer == [answer |-> "", sources |-> <<>>, relevant_context |-> <<>>,
             num_sources |-> 0]

\* the dictionary returned when the provider answered
success_answer_first_sources(text, contexts, metadatas) ==
    [answer |-> text,
     sources |-> SubSeq(metadatas, 1, Min(1, Len(metadatas))),
     relevant_context |-> contexts,
     num_sources |-> Len(contexts)]

success_answer(text, contexts, metadatas) ==
    [answer |-> text,
     sources |-> metadatas,
     relevant_context |-> contexts,
     num_sources |-> Len(contexts)]

\* the dictionary returned from the except branch
degraded_answer_keeps_sources(error, contexts, metadatas) ==
    [answer |-> "Sorry, I encountered an error: " \o error,
     sources |-> metadatas,
     relevant_context |-> contexts,
     num_sources |-> Len(contexts)]

degraded_answer(error, contexts, metadatas) ==
    [answer |-> "Sorry, I encountered an error: " \o error,
     sources |-> <<>>,
     relevant_context |-> <<>>,
     num_sources |-> 0]

\* generate_answer with the composition of the prompt inside its try: the
\* KeyError of a turn without a key becomes the apology answer
generate_answer_compose_in_try(query_text, contexts, metadatas, conversation_history, gen) ==
    LET rendered == IF conversation_history.none THEN <<>>
                    ELSE last_three(conversation_history.turns)
        broken == SelectSeq(rendered, LAMBDA msg : missing_key(msg) # "")
    IN IF Len(broken) > 0
       THEN [raised |-> FALSE, error |-> "", prompt |-> NoPrompt,
             llm |-> "not_called",
             result |-> degraded_answer("'" \o missing_key(broken[1]) \o "'",
                                        contexts, metadatas)]
       ELSE LET context == context_section(contexts)
                history == history_section(conversation_history)
                composed == [history_section |-> history,
                             context_section |-> context,
                             text |-> prompt_text(history, context, query_text)]
            IN IF gen.ok
               THEN [raised |-> FALSE, error |-> "", prompt |-> composed,
                     llm |-> "ok",
                     result |-> success_answer(gen.text, contexts, metadatas)]
               ELSE [raised |-> FALSE, error |-> "", prompt |-> composed,
                     llm |-> "failed",
                     result |-> degraded_answer(gen.text, contexts, metadatas)]

\* gen: what the generation provider does with the prompt,
\*      [ok |-> TRUE, text |-> its output] or [ok |-> FALSE, text |-> str(e)]
generate_answer(query_text, contexts, metadatas, conversation_history, gen) ==
    LET rendered == IF conversation_history.none THEN <<>>
                    ELSE last_three(conversation_history.turns)
        broken == SelectSeq(rendered, LAMBDA msg : missing_key(msg) # "")
    IN IF Len(broken) > 0
       THEN [raised |-> TRUE, error |-> "'" \o missing_key(broken[1]) \o "'",
             prompt |-> NoPrompt, llm |-> "not_called", result |-> NoAnswer]
       ELSE LET context == context_section(contexts)
                history == history_section(conversation_history)
                composed == [history_section |-> history,
                             context_section |-> context,
                             text |-> prompt_text(history, context, query_text)]
            IN IF gen.ok
               THEN [raised |-> FALSE, error |-> "", prompt |-> composed,
                     llm |-> "ok",
                     result |-> success_answer(gen.text, contexts, metadatas)]
               ELSE [raised |-> FALSE, error |-> "", prompt |-> composed,
                     llm |-> "failed",
                     result |-> degraded_answer(gen.text, contexts, metadatas)]

NoRetrieval == [called |-> FALSE, ok |-> FALSE, error |-> "", contexts |-> <<>>,
                metadatas |-> <<>>, distances |-> <<>>]

\* the RAGPipeline object as __init__ leaves it: its top_k and the name of
\* its collection (the collection's entries are the variable store)
Pipeline == [kind |-> "RAGPipeline", n |-> top_k, d |-> 1, s |-> "sugar_spend_data"]

\* a query that keeps the last question on the pipeline object and puts it
\* before the next one
query_with_session(self, collection, user_query, conversation_history, fault, gen) ==
    LET asked == IF self.s = Pipeline.s THEN user_query
                 ELSE self.s \o "\n" \o user_query
        answered(found, made) ==
            [raised |-> made.raised, error |-> made.error, retrieved |-> found,
             prompt |-> made.prompt, llm |-> made.llm, result |-> made.result,
             pipeline |-> [self EXCEPT !.s = user_query]]
        generate(found) ==
            IF ~found.ok
            THEN [raised |-> TRUE, error |-> found.error, retrieved |-> found,
                  prompt |-> NoPrompt, llm |-> "not_called", result |-> NoAnswer,
                  pipeline |-> [self EXCEPT !.s = user_query]]
            ELSE answered(found,
                          generate_answer(asked, found.contexts,
                                          found.metadatas, conversation_history,
                                          gen))
    IN generate(retrieve_relevant_chunks(collection, user_query, fault))

\* RAGPipeline.query: retrieval, then generation; an exception of either
\* propagates to the caller.  pipeline is the object after the call: no
\* statement of query, retrieve_relevant_chunks or generate_answer assigns
\* to an attribute of self
query(self, collection, user_query, conversation_history, fault, gen) ==
    LET answered(found, made) ==
            [raised |-> made.raised, error |-> made.error, retrieved |-> found,
             prompt |-> made.prompt, llm |-> made.llm, result |-> made.result,
             pipeline |-> self]
        generate(found) ==
            IF ~found.ok
            THEN [raised |-> TRUE, error |-> found.error, retrieved |-> found,
                  prompt |-> NoPrompt, llm |-> "not_called", result |-> NoAnswer,
                  pipeline |-> self]
            ELSE answered(found,
                          generate_answer(user_query, found.contexts,
                                          found.metadatas, conversation_history,
                                          gen))
    IN generate(retrieve_relevant_chunks(collection, user_query, fault))

(***************************************************************************)
(* main.py: the /api/chat handler.                                         *)
(***************************************************************************)
\* a handler without the check
pipeline_unchecked(pipeline) == TRUE

\* the negation of "if not rag_pipeline"
pipeline_ready(pipeline) == pipeline # None

NoResponse == [status |-> 0, answer |-> "", sources |-> <<>>,
               relevant_context |-> <<>>, detail |-> ""]
HttpError(code, text) == [NoResponse EXCEPT !.status = code, !.detail = text]

chat(pipeline, collection, req, fault, gen) ==
    LET respond(out) ==
            [response |-> IF out.raised THEN HttpError(500, out.error)
                          ELSE [status |-> 200,
                                answer |-> out.result.answer,
                                sources |-> out.result.sources,
                                relevant_context |-> out.result.relevant_context,
                                detail |-> ""],
             retrieved |-> out.retrieved,
             prompt |-> out.prompt, llm |-> out.llm,
             pipeline |-> out.pipeline]
    IN IF ~pipeline_ready(pipeline)
       THEN [response |-> HttpError(503, "RAG pipeline not initialized yet"),
             retrieved |-> NoRetrieval,
             prompt |-> NoPrompt, llm |-> "not_called", pipeline |-> pipeline]
       ELSE IF pipeline = None
       THEN [response |-> HttpError(500, "'NoneType' object has no attribute 'query'"),
             retrieved |-> NoRetrieval,
             prompt |-> NoPrompt, llm |-> "not_called", pipeline |-> pipeline]
       ELSE respond(query(pipeline, collection, req.message,
                          req.conversation_history, fault, gen))


(***************************************************************************)
(* main.py: startup_event.  The handler is a coroutine without an await,   *)
(* so the event loop runs it from its first line to its return or raise    *)
(* before it runs any other handler: it is one step.  fault names the      *)
(* external call that raises in this run, or "none".                       *)
(***************************************************************************)
startup_event(fault, kept) ==
    /\ pc = "down"
    /\ IF ~api_key
       THEN /\ fail_at' = "api_key"
            /\ pc' = "aborted"
            /\ UNCHANGED <<data_processor, chunks, summary_stats, rag_pipeline,
                           store, embed_result>>
       ELSE \E data \in {data_stage(csv)} :
               /\ data_processor' = data.data_processor
               /\ chunks' = data.chunks
               /\ summary_stats' = data.summary_stats
               /\ IF data.fail_at # "none"
                  THEN /\ fail_at' = data.fail_at
                       /\ pc' = "aborted"
                       /\ UNCHANGED <<rag_pipeline, store, embed_result>>
                  ELSE IF fault = "init"
                  THEN /\ fail_at' = "RAGPipeline"
                       /\ pc' = "aborted"
                       /\ UNCHANGED <<rag_pipeline, store, embed_result>>
                  ELSE \E built \in {embed_documents(store, data.chunks, fault, kept)} :
                          /\ rag_pipeline' = Pipeline
                          /\ store' = built.collection
                          /\ embed_result' = built.result
                          /\ IF built.result \in {"skipped", "stored"}
                             THEN fail_at' = "none" /\ pc' = "up"
                             ELSE fail_at' = "embed_documents" /\ pc' = "aborted"
    /\ UNCHANGED <<csv, api_key, request, retrieved, prompt, llm, response,
                   previous>>

(***************************************************************************)
(* A request to /api/chat.  The host dispatches it when the event loop is  *)
(* free: before startup_event has run or after it has returned.  A process *)
(* whose startup_event raised is ended by the host and serves nothing.     *)
(* request, retrieved, prompt, llm and response record the exchange until  *)
(* Deliver hands the response to the client; the handler itself keeps      *)
(* nothing of it.                                                          *)
(***************************************************************************)
NoRequest == [message |-> "", conversation_history |-> [none |-> TRUE, turns |-> <<>>]]

Chat(message, conversation_history, fault, gen) ==
    /\ pc \in {"down", "up"}
    /\ request = NoRequest
    /\ \E req \in {[message |-> message,
                     conversation_history |-> conversation_history]} :
       \E out \in {chat(rag_pipeline, store, req, fault, gen)} :
          /\ request' = req
          /\ retrieved' = out.retrieved
          /\ prompt' = out.prompt
          /\ llm' = out.llm
          /\ response' = out.response
          /\ rag_pipeline' = out.pipeline
    /\ UNCHANGED <<csv, api_key, store, pc, data_processor, summary_stats,
                   chunks, fail_at, embed_result, previous>>

\* the client receives the response
Deliver ==
    /\ request # NoRequest
    /\ request' = NoRequest
    /\ retrieved' = NoRetrieval
    /\ prompt' = NoPrompt
    /\ llm' = "not_called"
    /\ response' = NoResponse
    /\ UNCHANGED <<csv, api_key, store, pc, data_processor, summary_stats,
                   rag_pipeline, chunks, fail_at, embed_result, previous>>

\* the client receives the response and keeps the exchange, to compare a
\* later exchange with it
NoExchange == [request |-> NoRequest, retrieved |-> NoRetrieval,
               prompt |-> NoPrompt, llm |-> "not_called", response |-> NoResponse]

Complete ==
    /\ request # NoRequest
    /\ previous' = [request |-> request, retrieved |-> retrieved,
                    prompt |-> prompt, llm |-> llm, response |-> response]
    /\ request' = NoRequest
    /\ retrieved' = NoRetrieval
    /\ prompt' = NoPrompt
    /\ llm' = "not_called"
    /\ response' = NoResponse
    /\ UNCHANGED <<csv, api_key, store, pc, data_processor, summary_stats,
                   rag_pipeline, chunks, fail_at, embed_result>>

\* start.py, setup_backend: when chatbot-backend/.env is absent the launcher
\* asks for the key and writes the line GEMINI_API_KEY=<answer> to that file
\* (an empty answer ends the launcher before any server is started); a .env
\* that exists is left as it is.  main.py loads the file at import, without
\* replacing a variable the environment already has.  typed: the launcher
\* wrote the file; loaded: the line gives the next process a value that is
\* not empty (it does not for an answer such as '""', an answer the loader
\* cannot parse, or when the environment holds an empty GEMINI_API_KEY).
setup_backend(key, typed, loaded) == key \/ (typed /\ loaded)

\* the process ends and a new one starts: module globals are fresh, the
\* persist_directory of the store is kept, and the key is the one of the
\* environment, or the one typed to the launcher
Restart(typed, loaded) ==
    /\ pc \in {"up", "aborted"}
    /\ api_key' = setup_backend(api_key, typed, loaded)
    /\ pc' = "down"
    /\ data_processor' = None
    /\ summary_stats' = None
    /\ rag_pipeline' = None
    /\ chunks' = <<>>
    /\ fail_at' = "none"
    /\ embed_result' = "none"
    /\ request' = NoRequest
    /\ retrieved' = NoRetrieval
    /\ prompt' = NoPrompt
    /\ llm' = "not_called"
    /\ response' = NoResponse
    /\ UNCHANGED <<csv, store, previous>>

(***************************************************************************)
(* The environment: data files, persisted stores, requests, faults.        *)
(***************************************************************************)
Range(f) == {f[i] : i \in DOMAIN f}
SeqsUpTo(S, n) == UNION {[1..k -> S] : k \in 0..n}
Drop(seq, j) == SubSeq(seq, 1, j - 1) \o SubSeq(seq, j + 1, Len(seq))

File(header, rows) == [exists |-> TRUE, header |-> header, rows |-> rows]
NoFile == [exists |-> FALSE, header |-> <<>>, rows |-> <<>>]

RequiredHeader ==
    <<(<<"Commodity">>), (<<"Top Supplier">>), (<<"Quantity (KG)">>), (<<"Spend (USD)">>)>>
CommodityVariants ==
    {<<"Commodity">>, <<BOM, "Commodity">>, <<SP, "Commodity", SP>>,
     <<BOM, SP, "Commodity">>}
Headers ==
    {[RequiredHeader EXCEPT ![1] = v] : v \in CommodityVariants}
    \cup {Drop(RequiredHeader, j) : j \in 1..4}

CoreName(t) == CHOOSE c \in Range(t) : c \notin {BOM, SP}

\* rows of a file with this header, each cell drawn from cells(column)
RowsOf(header, cells(_)) ==
    {r \in [1..Len(header) -> UNION {cells(CoreName(header[j])) : j \in 1..Len(header)}] :
        \A j \in 1..Len(header) : r[j] \in cells(CoreName(header[j]))}

\* csv is no file at all, or a file with one of the headers and up to
\* MaxRows rows
IsFileOf(file, headers, cells(_)) ==
    \/ file = NoFile
    \/ \E h \in headers : \E n \in 0..MaxRows :
          \E rows \in [1..n -> RowsOf(h, cells)] : file = File(h, rows)

DataCells(name) ==
    CASE name = "Commodity" -> {Str("Sugar")}
      [] name = "Top Supplier" -> {Str("AcmeCo")}
      [] name = "Quantity (KG)" -> {Num(1000), Num(0), Num(-5), Str("abc"), NaN}
      [] name = "Spend (USD)" -> {Num(500), Str("tbd"), NaN}


LifeHeaders ==
    {RequiredHeader, [RequiredHeader EXCEPT ![1] = <<BOM, SP, "Commodity">>],
     Drop(RequiredHeader, 1), Drop(RequiredHeader, 3)}

LifeCells(name) ==
    CASE name = "Commodity" -> {Str("Sugar"), NaN}
      [] name = "Top Supplier" -> {Str("AcmeCo")}
      [] name = "Quantity (KG)" -> {Num(1000), Str("abc")}
      [] name = "Spend (USD)" -> {Num(500)}

\* a store persisted by an earlier run of the program on a file of n rows
Commodities == <<"Sugar", "Raw Sugar", "Cane Sugar", "Brown Sugar", "Beet Sugar Pulp">>
PriorFile(n) ==
    File(RequiredHeader,
         [i \in 1..n |-> <<Str(Commodities[((i * i) % Len(Commodities)) + 1]),
                           Str("AcmeCo"),
                           Num(IF i % 3 = 0 THEN 10 ELSE IF i % 3 = 1 THEN 100 ELSE 1000),
                           Num(3 * i)>>])
PriorStore(n) ==
    embed_documents(<<>>, create_text_chunks(read_csv(PriorFile(n))).chunks,
                    "none", 0).collection

MaxPrior == 1

Messages == {"cheapest supplier", "total spend on sugar?"}

Turns == {[role |-> "user", content |-> "hi"],
          [role |-> "assistant", content |-> "Sugar is $0.50 per kg."],
          [role |-> "user"],
          [content |-> "no role"]}
NoHistory == [none |-> TRUE, turns |-> <<>>]
History(turns) == [none |-> FALSE, turns |-> turns]
Histories(n) == {NoHistory} \cup {History(t) : t \in SeqsUpTo(Turns, n)}

Generations == {[ok |-> TRUE, text |-> "AcmeCo is the cheapest supplier."],
                [ok |-> FALSE, text |-> "429 quota exceeded"],
                [ok |-> FALSE, text |-> ""]}

StartupFaults == {"none", "init", "encode", "add"}
\* what a Collection.add that raises may have stored of a run's chunks
Kept(fault) == IF fault = "add" THEN 0..MaxRows ELSE {0}
QueryFaults == {"none", "encode", "query"}

(***************************************************************************)
(* Specifications.                                                         *)
(***************************************************************************)
InitWith(headers, cells(_), keys, stores) ==
    /\ IsFileOf(csv, headers, cells)
    /\ api_key \in keys
    /\ store \in stores
    /\ pc = "down"
    /\ data_processor = None
    /\ summary_stats = None
    /\ rag_pipeline = None
    /\ chunks = <<>>
    /\ fail_at = "none"
    /\ embed_result = "none"
    /\ request = NoRequest
    /\ retrieved = NoRetrieval
    /\ prompt = NoPrompt
    /\ llm = "not_called"
    /\ response = NoResponse
    /\ previous = NoExchange

\* SpecData: DataProcessor on every file of the family
ProcessData ==
    /\ pc = "down" /\ data_processor = None /\ fail_at = "none"
    /\ \E data \in {data_stage(csv)} :
          /\ data_processor' = data.data_processor
          /\ chunks' = data.chunks
          /\ summary_stats' = data.summary_stats
          /\ fail_at' = data.fail_at
    /\ UNCHANGED <<csv, api_key, store, pc, rag_pipeline, embed_result,
                   request, retrieved, prompt, llm, response, previous>>

InitData == InitWith(Headers, DataCells, {TRUE}, {<<>>})
NextData == ProcessData
SpecData == InitData /\ [][NextData]_vars


\* Spec: the life of the server process over restarts
LifeHistories == {NoHistory, History(<<[role |-> "user", content |-> "hi"]>>)}
LifeGenerations == {g \in Generations : g.text # ""}

Init == InitWith(LifeHeaders, LifeCells, BOOLEAN,
                 {PriorStore(n) : n \in 0..MaxPrior})
Next ==
    \/ \E fault \in StartupFaults : \E kept \in Kept(fault) :
          startup_event(fault, kept)
    \/ \E message \in Messages, history \in LifeHistories,
          fault \in {"none", "encode"}, gen \in LifeGenerations :
          Chat(message, history, fault, gen)
    \/ Deliver
    \/ \E typed \in BOOLEAN, loaded \in BOOLEAN : Restart(typed, loaded)
Spec == Init /\ [][Next]_vars


\* a server whose startup_event has returned, over a store of n entries
InitUp(sizes) ==
    \E n \in sizes :
        \E data \in {data_stage(PriorFile(n))} :
           /\ csv = PriorFile(n)
           /\ api_key = TRUE
           /\ store = PriorStore(n)
           /\ pc = "up"
           /\ data_processor = data.data_processor
           /\ summary_stats = data.summary_stats
           /\ rag_pipeline = Pipeline
           /\ chunks = data.chunks
           /\ fail_at = "none"
           /\ embed_result = "stored"
           /\ request = NoRequest
           /\ retrieved = NoRetrieval
           /\ prompt = NoPrompt
           /\ llm = "not_called"
           /\ response = NoResponse
           /\ previous = NoExchange

\* SpecQuery: requests with every history of up to MaxTurns turns
MaxTurns == 4

InitQuery == InitUp(1..MaxPrior)
NextQuery ==
    \/ \E message \in Messages, history \in Histories(MaxTurns),
          fault \in QueryFaults, gen \in Generations :
          Chat(message, history, fault, gen)
    \/ Deliver
SpecQuery == InitQuery /\ [][NextQuery]_vars

\* SpecRetrieve: requests against stores smaller and larger than top_k
MaxStore == 31

RetrieveMessages == Messages \cup {"who supplies raw sugar"}

InitRetrieve == InitUp({n \in 1..MaxStore : n <= 2 \/ n >= top_k - 1})
NextRetrieve ==
    \/ \E message \in RetrieveMessages, history \in LifeHistories,
          fault \in QueryFaults, gen \in Generations :
          Chat(message, history, fault, gen)
    \/ Deliver
SpecRetrieve == InitRetrieve /\ [][NextRetrieve]_vars


\* SpecSession: one client after another, and the same client again, on a
\* running server; a client may keep an exchange it completed
SessionHistories ==
    {NoHistory,
     History(<<[role |-> "user", content |-> "hi"]>>),
     History(<<[role |-> "user", content |-> "hi"],
               [role |-> "assistant", content |-> "Sugar is $0.50 per kg."]>>)}

InitSession == InitUp({1, 2})
NextSession ==
    \/ \E message \in Messages, history \in SessionHistories,
          fault \in {"none", "encode"}, gen \in LifeGenerations :
          Chat(message, history, fault, gen)
    \/ Deliver
    \/ Complete
SpecSession == InitSession /\ [][NextSession]_vars


(***************************************************************************)
(* Properties.                                                             *)
(***************************************************************************)
EmbedReturned == embed_result \in {"skipped", "stored"}
EmbedFailed == embed_result \in {"encode_failed", "add_failed"}

\* C1: embed_documents on a store that holds an entry adds nothing: the
\* store and its count() are as before the call, whatever the chunk list,
\* on every run of the program over the same store.
C1_BuildIdempotent ==
    [][(pc = "down" /\ embed_result' # "none" /\ count(store) > 0)
        => (embed_result' = "skipped" /\ store' = store
            /\ count(store') = count(store))]_vars

\* a populated store was left alone although the run had more chunks than it
C1_Witness ==
    embed_result = "skipped" /\ count(store) > 0 /\ Len(chunks) > count(store)

\* C2: when the generation provider fails, the request is answered (no
\* error status) with a text that is not empty and with no sources and no
\* contexts, however many contexts were retrieved.
C2_DegradedAnswer ==
    llm = "failed"
        => /\ response.status = 200
           /\ response.answer # ""
           /\ response.sources = <<>>
           /\ response.relevant_context = <<>>

\* the provider failed, with an empty message, after top_k contexts were found
C2_Witness ==
    /\ llm = "failed"
    /\ Len(retrieved.contexts) = top_k
    /\ response.answer = "Sorry, I encountered an error: "

\* C3: every chunk carries a numeric quantity and a numeric spend, and a
\* quantity above 0.
C3_OnlyValidRowsChunked ==
    \A i \in 1..Len(chunks) :
        /\ chunks[i].metadata.quantity_kg.kind = "num"
        /\ chunks[i].metadata.spend_usd.kind = "num"
        /\ chunks[i].metadata.quantity_kg.n > 0

\* C4: a request reaches RAGPipeline.query only after embed_documents has
\* returned in startup_event, and a request handled before that is answered
\* with status 503.
C4_NoQueryBeforeBuild ==
    /\ retrieved.called => EmbedReturned
    /\ (response.status # 0 /\ ~EmbedReturned) => response.status = 503

\* a request came before startup, and startup then failed inside
\* embed_documents, after the rag_pipeline global was assigned
C4_Witness ==
    /\ pc = "aborted"
    /\ rag_pipeline = Pipeline
    /\ EmbedFailed
    /\ response.status = 503

\* the entry of the store that a retrieved metadata belongs to
EntryOf(meta) ==
    CHOOSE k \in 1..Len(store) : store[k].metadata.row_index = meta.row_index

\* C5: retrieval returns at most top_k results, nearest first (distances
\* never decrease), and they are the nearest entries of the store, none
\* filtered out and none moved.
C5_RetrievalRankedTopK ==
    retrieved.ok =>
        LET n == Len(retrieved.contexts)
            q == encode(request.message)
            hit(i) == EntryOf(retrieved.metadatas[i])
            hits == {hit(i) : i \in 1..n}
        IN /\ n <= top_k
           /\ n = Min(top_k, count(store))
           /\ Len(retrieved.metadatas) = n /\ Len(retrieved.distances) = n
           /\ \A i \in 1..n :
                 /\ retrieved.contexts[i] = store[hit(i)].document
                 /\ retrieved.distances[i] = Distance(store[hit(i)].embedding, q)
           /\ \A i, j \in 1..n :
                 i < j => /\ retrieved.distances[i] <= retrieved.distances[j]
                          /\ hit(i) # hit(j)
           /\ \A k \in 1..Len(store) : \A i \in 1..n :
                 k \notin hits =>
                     Distance(store[k].embedding, q) >= retrieved.distances[i]

\* a store of more than top_k entries was searched and entries at different
\* distances came back
C5_Witness ==
    /\ retrieved.ok
    /\ count(store) > top_k
    /\ Len(retrieved.contexts) = top_k
    /\ retrieved.distances[1] < retrieved.distances[top_k]

\* the value of a key of a turn, for turns that may lack it
Field(msg, key) == IF key \in DOMAIN msg THEN msg[key] ELSE "<no " \o key \o ">"

RECURSIVE RenderFrom(_, _)
RenderFrom(turns, k) ==
    IF k > Len(turns) THEN ""
    ELSE Field(turns[k], "role") \o ": " \o Field(turns[k], "content") \o "\n"
         \o RenderFrom(turns, k + 1)

\* C6: the prompt renders the last min(n, 3) turns of a history of n turns,
\* in their order, as "role: content" lines under the header; with no
\* history or an empty one the block and its header are left out.
C6_LastThreeTurns ==
    prompt.text # "" =>
        LET history == request.conversation_history
            n == Len(history.turns)
        IN /\ prompt.history_section =
                 IF history.none \/ n = 0 THEN ""
                 ELSE "Previous conversation:\n"
                      \o RenderFrom(history.turns, n - Min(n, 3) + 1) \o "\n"
           /\ prompt.text = prompt_text(prompt.history_section,
                                        prompt.context_section, request.message)

\* a prompt was composed for a history of more than three turns
C6_Witness ==
    /\ prompt.text # ""
    /\ Len(request.conversation_history.turns) > 3
    /\ request.conversation_history.turns[1] # request.conversation_history.turns[4]

\* C7: when generation succeeds the answer's sources are the retrieved
\* metadata and its contexts the retrieved documents, in retrieval order
\* and of the same length, sources[i] being the metadata of contexts[i].
C7_SourcesMatchContexts ==
    llm = "ok" =>
        /\ response.status = 200
        /\ response.sources = retrieved.metadatas
        /\ response.relevant_context = retrieved.contexts
        /\ Len(response.sources) = Len(response.relevant_context)
        /\ \A i \in 1..Len(response.sources) :
              store[EntryOf(response.sources[i])].document
                  = response.relevant_context[i]

\* an answer was generated from top_k retrieved contexts
C7_Witness ==
    llm = "ok" /\ Len(response.sources) = top_k /\ response.answer # ""

\* the zero-based positions of the rows of the file that have no empty cell
SurvivingRows(file) ==
    {k \in 0..(Len(file.rows) - 1) :
        \A j \in 1..Len(file.rows[k + 1]) : file.rows[k + 1][j].kind # "nan"}

\* C8: create_text_chunks returns one chunk per record of clean_data, in the
\* order of the file; the id of each is "row_" and the zero-based position in
\* the file of the row it was made from, so ids differ pairwise and a second
\* build of the same data returns the same chunks.
C8_OneChunkPerCleanRecord ==
    (data_processor # None /\ fail_at # "create_text_chunks") =>
        LET records == clean_data(data_processor).rows
        IN /\ Len(chunks) = Len(records)
           /\ Len(chunks) = Cardinality(SurvivingRows(csv))
           /\ \A i \in 1..Len(chunks) :
                 /\ chunks[i].metadata.row_index \in SurvivingRows(csv)
                 /\ chunks[i].metadata.row_index = records[i].idx
                 /\ chunks[i].id = "row_" \o ToString(chunks[i].metadata.row_index)
           /\ \A i, j \in 1..Len(chunks) :
                 i < j => /\ chunks[i].metadata.row_index < chunks[j].metadata.row_index
                          /\ chunks[i].id # chunks[j].id
           /\ chunks = create_text_chunks(data_processor).chunks

\* the first row of a file was dropped and the second became chunk row_1
C8_Witness ==
    Len(csv.rows) = 2 /\ Len(chunks) = 1 /\ chunks[1].id = "row_1"

\* a column the chunks need is not among the names of the file as read and
\* normalized
RequiredColumns == <<"Commodity", "Top Supplier", "Quantity (KG)", "Spend (USD)">>
RequiredAbsent(file) ==
    /\ file.exists
    /\ \E j \in 1..Len(RequiredColumns) :
          \A c \in 1..Len(file.header) :
              ColName(normalize_name(skip_bom(file.header)[c])) # RequiredColumns[j]

\* C9 as stated: with a required column absent, it is normalization
\* (clean_data) that fails; no chunk is produced, startup aborts and the
\* store is not written.
C9_NormalizationFails ==
    (pc = "aborted" /\ api_key /\ RequiredAbsent(csv))
        => (fail_at = "clean_data" /\ chunks = <<>> /\ rag_pipeline = None)

\* C9 amended: with a required column absent, clean_data returns the rows
\* without it; the build fails afterwards with a KeyError, raised by
\* create_text_chunks when a row survived cleaning and by get_summary_stats
\* otherwise; no chunk is produced, startup aborts before the pipeline is
\* constructed, and the store is not written.
C9_MissingColumnAbortsStartup ==
    [][(pc = "down" /\ pc' # "down" /\ api_key /\ RequiredAbsent(csv))
        => /\ pc' = "aborted"
           /\ fail_at' = IF Len(clean_data(read_csv(csv)).rows) > 0
                         THEN "create_text_chunks" ELSE "get_summary_stats"
           /\ chunks' = <<>>
           /\ summary_stats' = None
           /\ rag_pipeline' = None
           /\ embed_result' = "none"
           /\ store' = store]_vars

\* startup aborted in get_summary_stats on a file without a required column
C9_Witness ==
    /\ pc = "aborted"
    /\ RequiredAbsent(csv)
    /\ fail_at = "get_summary_stats"
    /\ data_processor # None

\* C10: an embed_documents that fails, in the embedding computation or in
\* the store write, leaves the store without any entry of that build: the
\* store was empty and is empty afterwards, and a build on an empty store
\* is never skipped.  The embedding half holds, every embedding being
\* computed before the one store write; the store-write half does not, the
\* code undoing nothing of a Collection.add that raised.
C10_FailedBuildLeavesStoreEmpty ==
    [][/\ (pc = "down" /\ embed_result' \in {"encode_failed", "add_failed"})
            => (count(store) = 0 /\ count(store') = 0 /\ pc' = "aborted")
       /\ (pc = "down" /\ embed_result' # "none" /\ count(store) = 0)
            => embed_result' # "skipped"]_vars

\* C11: the store changes only from empty to built: a step that changes it
\* starts from an empty store, is the store write of an embed_documents and
\* leaves the store with entries of that run's chunks, in their order, all
\* of them when the call returned; once the store holds an entry no
\* startup, request (whether its generation succeeds or fails) or restart
\* adds, removes or changes an entry.
C11_IndexImmutableOnceBuilt ==
    [][/\ count(store) > 0 => store' = store
       /\ store' # store =>
             /\ count(store) = 0 /\ count(store') > 0
             /\ pc = "down" /\ embed_result' \in {"stored", "add_failed"}
             /\ count(store') <= Len(chunks')
             /\ \A i \in 1..count(store') :
                   /\ store'[i].id = chunks'[i].id
                   /\ store'[i].document = chunks'[i].text
                   /\ store'[i].metadata = chunks'[i].metadata
             /\ embed_result' = "stored" => count(store') = Len(chunks')]_vars

\* over a populated store a later run skipped its build, with other chunks
\* than the store holds, and then served a request whose generation failed
C11_Witness ==
    /\ count(store) > 0
    /\ embed_result = "skipped"
    /\ \E i \in 1..Len(chunks) : chunks[i].text # store[1].document
    /\ llm = "failed"
    /\ response.status = 200

\* C12: a request leaves nothing behind for another: the pipeline object is
\* after every request as it was constructed, and two requests with the same
\* query text and history over the same store, with any requests of other
\* clients between them, retrieve the same contexts and get the same prompt,
\* and, when the provider answers both alike, the same sources and contexts.
C12_NoCrossRequestState ==
    /\ rag_pipeline = Pipeline
    /\ (request # NoRequest /\ previous.request = request
            /\ retrieved.ok /\ previous.retrieved.ok)
        => /\ retrieved = previous.retrieved
           /\ prompt = previous.prompt
           /\ llm = previous.llm
               => /\ response.sources = previous.response.sources
                  /\ response.relevant_context = previous.response.relevant_context

\* a request with a history was answered from retrieved contexts a second
\* time, after it had been completed once
C12_Witness ==
    /\ previous.request = request
    /\ Len(request.conversation_history.turns) > 0
    /\ llm = "ok" /\ previous.llm = "ok"
    /\ prompt.text # ""
    /\ Len(response.sources) > 0

\* C13: when embedding the query fails the request ends with that failure:
\* the handler answers status 500 with the exception's text, no answer, no
\* sources and no contexts are returned, no prompt is composed and the
\* generation provider is not called.
C13_EmbeddingFailureSurfaced ==
    (retrieved.called /\ retrieved.error = "encode failed")
        => /\ ~retrieved.ok
           /\ response.status = 500
           /\ response.detail = retrieved.error
           /\ response.answer = ""
           /\ response.sources = <<>>
           /\ response.relevant_context = <<>>
           /\ prompt = NoPrompt
           /\ llm = "not_called"

\* the embedding of a query failed over a populated store, for a request
\* that carried a history
C13_Witness ==
    /\ retrieved.error = "encode failed"
    /\ count(store) > 0
    /\ Len(request.conversation_history.turns) > 1
    /\ response.status = 500

\* the position of the first occurrence of sub in text, 0 when there is none
IndexOf(text, sub) ==
    LET hits == {p \in 1..(Len(text) - Len(sub) + 1) :
                    SubSeq(text, p, p + Len(sub) - 1) = sub}
    IN IF hits = {} THEN 0 ELSE CHOOSE p \in hits : \A q \in hits : p <= q

\* the position after the last character of that occurrence
EndOf(text, sub) == IndexOf(text, sub) + Len(sub)

HistoryHeader == "Previous conversation:\n"
ContextHeader == "CONTEXT INFORMATION:\n"
ContextEntry(i) == "Context " \o ToString(i) \o ":\n" \o retrieved.contexts[i]
InstructionBlock ==
    "INSTRUCTIONS:\n"
    \o "1. Answer based ONLY on the provided context\n"
    \o "2. Be specific with numbers (quantities in kg, spend in USD, suppliers, commodities)\n"
    \o "3. Format numbers clearly (e.g., $1,234.56, 1,000 kg)\n"
    \o "4. If the context doesn't have the information, say so\n"
    \o "5. Be concise but complete\n"
QuestionLine == "USER QUESTION: " \o request.message \o "\n"

\* the history block is there exactly for a history with a turn and comes
\* before the context block, which lists the retrieved contexts as
\* "Context 1", "Context 2", ... in retrieval order
HistoryThenContexts ==
    LET n == Len(retrieved.contexts)
        history == request.conversation_history
    IN /\ (IndexOf(prompt.text, HistoryHeader) > 0)
              <=> (~history.none /\ Len(history.turns) > 0)
       /\ IndexOf(prompt.text, ContextHeader) > 0
       /\ IndexOf(prompt.text, HistoryHeader) > 0
              => /\ prompt.history_section # ""
                 /\ IndexOf(prompt.text, prompt.history_section)
                        = IndexOf(prompt.text, HistoryHeader)
                 /\ EndOf(prompt.text, prompt.history_section)
                        <= IndexOf(prompt.text, ContextHeader)
       /\ \A i \in 1..n : IndexOf(prompt.text, ContextEntry(i)) > 0
       /\ n > 0 => EndOf(prompt.text, ContextHeader)
                       = IndexOf(prompt.text, ContextEntry(1))
       /\ \A i \in 1..(n - 1) :
             EndOf(prompt.text, ContextEntry(i))
                 < IndexOf(prompt.text, ContextEntry(i + 1))
       /\ IndexOf(prompt.text, "Context " \o ToString(n + 1) \o ":") = 0
       /\ IndexOf(prompt.text, "Context 0:") = 0

\* where the context block ends
ContextsEnd ==
    IF Len(retrieved.contexts) = 0 THEN EndOf(prompt.text, ContextHeader)
    ELSE EndOf(prompt.text, ContextEntry(Len(retrieved.contexts)))

\* C14 as stated: history block, context block, instruction block, question.
C14_InstructionsBeforeQuestion ==
    prompt.text # "" =>
        /\ HistoryThenContexts
        /\ IndexOf(prompt.text, InstructionBlock) > 0
        /\ IndexOf(prompt.text, QuestionLine) > 0
        /\ ContextsEnd <= IndexOf(prompt.text, InstructionBlock)
        /\ EndOf(prompt.text, InstructionBlock) <= IndexOf(prompt.text, QuestionLine)

\* C14 amended: the prompt places its blocks in the order history block
\* (optional), context block listing each retrieved context as "Context i",
\* i counting from 1 in retrieval order, then the literal question, then the
\* fixed instruction block.
C14_QuestionBeforeInstructions ==
    prompt.text # "" =>
        /\ HistoryThenContexts
        /\ IndexOf(prompt.text, InstructionBlock) > 0
        /\ IndexOf(prompt.text, QuestionLine) > 0
        /\ ContextsEnd <= IndexOf(prompt.text, QuestionLine)
        /\ EndOf(prompt.text, QuestionLine) <= IndexOf(prompt.text, InstructionBlock)

\* a prompt was composed with a history block and two different contexts
C14_Witness ==
    /\ prompt.text # ""
    /\ prompt.history_section # ""
    /\ Len(retrieved.contexts) = 2
    /\ retrieved.contexts[1] # retrieved.contexts[2]

\* the turns of the request that conversation_history[-3:] selects
RecentTurns ==
    LET turns == request.conversation_history.turns
    IN {turns[k] : k \in {j \in 1..Len(turns) : j > Len(turns) - 3}}

\* a turn without 'role' or without 'content'
Malformed(msg) == "role" \notin DOMAIN msg \/ "content" \notin DOMAIN msg

\* C15: once retrieval has returned, a request with a malformed turn among
\* the last 3 of its history ends with the KeyError (status 500, no answer,
\* no prompt, provider not called); a request whose last 3 turns are well
\* formed is answered with status 200 from a composed prompt and a provider
\* call, whatever the turns before the last 3 are.
C15_MalformedRecentTurnRaises ==
    retrieved.ok =>
        IF \E msg \in RecentTurns : Malformed(msg)
        THEN /\ response.status = 500
             /\ response.detail \in {"'role'", "'content'"}
             /\ response.answer = ""
             /\ prompt = NoPrompt
             /\ llm = "not_called"
        ELSE /\ response.status = 200
             /\ response.answer # ""
             /\ prompt.text # ""
             /\ llm \in {"ok", "failed"}

\* the last turn of four lacked its content and the request ended with the
\* KeyError, after contexts had been retrieved
C15_Witness ==
    /\ retrieved.ok /\ Len(retrieved.contexts) > 0
    /\ Len(request.conversation_history.turns) = 4
    /\ ~Malformed(request.conversation_history.turns[2])
    /\ "content" \notin DOMAIN request.conversation_history.turns[4]
    /\ response.status = 500
    /\ response.detail = "'content'"

====
